---- MODULE Spec2Model ----
(***************************************************************************)
(* Model of scripts/css-extract.py: the section manifest, the extraction   *)
(* engine (extract_sections), the aggregator file (index.css), the         *)
(* verification step (verify_output) and the command-line entry point.     *)
(*                                                                         *)
(* A text file is a record [exists, data]; data is the sequence of its     *)
(* lines.  A line of the source document is an integer (two lines are the  *)
(* same text iff they are the same integer); a line of index.css is a pair *)
(* <<kind, text>> where kind is "@import" (text = the imported path) or    *)
(* "text" (a comment or blank line).                                       *)
(***************************************************************************)
EXTENDS Integers, Sequences, FiniteSets, TLC

\* ---------------------------------------------------------------- bounds
\* Source documents have up to MaxEnd + MaxExtra lines.
MaxExtra == 1
\* Line contents repeat with period 1..MaxPeriod, or never repeat (period 0).
MaxPeriod == 2
\* Length of the short document (shorter than most manifest ranges).
ShortLen == 500
\* Number of invocations of the script in one behaviour.
MaxRuns == 2

\* ------------------------------------------------- program data (verbatim)
\* SECTIONS in declaration (dict insertion) order.
SECTIONS ==
  <<
     [output_path |-> "base/variables.css", start_line |-> 5, end_line |-> 95],
     [output_path |-> "base/reset.css", start_line |-> 96, end_line |-> 122],
     [output_path |-> "base/typography.css", start_line |-> 123, end_line |-> 141],
     [output_path |-> "layout/app.css", start_line |-> 142, end_line |-> 156],
     [output_path |-> "layout/page-header.css", start_line |-> 1247, end_line |-> 1260],
     [output_path |-> "layout/search-filter.css", start_line |-> 1260, end_line |-> 1305],
     [output_path |-> "layout/empty-states.css", start_line |-> 1305, end_line |-> 1335],
     [output_path |-> "layout/pagination.css", start_line |-> 1343, end_line |-> 1379],
     [output_path |-> "layout/form-layout.css", start_line |-> 3325, end_line |-> 3384],
     [output_path |-> "components/sidebar.css", start_line |-> 156, end_line |-> 192],
     [output_path |-> "components/navbar.css", start_line |-> 192, end_line |-> 417],
     [output_path |-> "components/buttons.css", start_line |-> 417, end_line |-> 500],
     [output_path |-> "components/forms.css", start_line |-> 500, end_line |-> 629],
     [output_path |-> "components/tables.css", start_line |-> 629, end_line |-> 680],
     [output_path |-> "components/alerts.css", start_line |-> 680, end_line |-> 703],
     [output_path |-> "components/cards.css", start_line |-> 703, end_line |-> 1203],
     [output_path |-> "components/badges.css", start_line |-> 1203, end_line |-> 1247],
     [output_path |-> "components/tab-bar.css", start_line |-> 1548, end_line |-> 1575],
     [output_path |-> "components/relation-cards.css", start_line |-> 1725, end_line |-> 1790],
     [output_path |-> "components/graph-panel.css", start_line |-> 1843, end_line |-> 1872],
     [output_path |-> "components/pipeline-tabs.css", start_line |-> 3020, end_line |-> 3057],
     [output_path |-> "components/detail-card.css", start_line |-> 3084, end_line |-> 3115],
     [output_path |-> "components/section.css", start_line |-> 3300, end_line |-> 3325],
     [output_path |-> "components/tabs.css", start_line |-> 4511, end_line |-> 4549],
     [output_path |-> "components/tor-context.css", start_line |-> 5575, end_line |-> 5627],
     [output_path |-> "pages/error.css", start_line |-> 1379, end_line |-> 1425],
     [output_path |-> "pages/login.css", start_line |-> 1425, end_line |-> 1490],
     [output_path |-> "pages/ontology.css", start_line |-> 1575, end_line |-> 1725],
     [output_path |-> "pages/schema-tables.css", start_line |-> 1790, end_line |-> 1843],
     [output_path |-> "pages/graph.css", start_line |-> 1872, end_line |-> 2132],
     [output_path |-> "pages/data-browser.css", start_line |-> 2400, end_line |-> 2483],
     [output_path |-> "pages/entity-detail.css", start_line |-> 2483, end_line |-> 2619],
     [output_path |-> "pages/role-permissions.css", start_line |-> 2690, end_line |-> 2886],
     [output_path |-> "pages/menu-builder.css", start_line |-> 2886, end_line |-> 3020],
     [output_path |-> "pages/inline-form.css", start_line |-> 3115, end_line |-> 3146],
     [output_path |-> "pages/tor-grid.css", start_line |-> 3384, end_line |-> 3507],
     [output_path |-> "pages/tor-info-grid.css", start_line |-> 3507, end_line |-> 3551],
     [output_path |-> "pages/positions-list.css", start_line |-> 3551, end_line |-> 3629],
     [output_path |-> "pages/functions-list.css", start_line |-> 3629, end_line |-> 3675],
     [output_path |-> "pages/protocol-steps.css", start_line |-> 3675, end_line |-> 3770],
     [output_path |-> "pages/dependency-flow.css", start_line |-> 3770, end_line |-> 3864],
     [output_path |-> "pages/governance-cards.css", start_line |-> 3864, end_line |-> 3916],
     [output_path |-> "pages/governance-graph.css", start_line |-> 3916, end_line |-> 4132],
     [output_path |-> "pages/calendar.css", start_line |-> 4132, end_line |-> 4511],
     [output_path |-> "pages/profile.css", start_line |-> 4604, end_line |-> 4685],
     [output_path |-> "pages/users-list.css", start_line |-> 4685, end_line |-> 5053],
     [output_path |-> "pages/point-paper.css", start_line |-> 5289, end_line |-> 5686],
     [output_path |-> "pages/role-list.css", start_line |-> 5686, end_line |-> 5874],
     [output_path |-> "pages/role-builder.css", start_line |-> 5874, end_line |-> 6142],
     [output_path |-> "utilities/utilities.css", start_line |-> 1490, end_line |-> 1495],
     [output_path |-> "utilities/scrollbar.css", start_line |-> 1495, end_line |-> 1514],
     [output_path |-> "utilities/animations.css", start_line |-> 1514, end_line |-> 1537],
     [output_path |-> "utilities/focus.css", start_line |-> 1537, end_line |-> 1548],
     [output_path |-> "utilities/muted-id.css", start_line |-> 1335, end_line |-> 1343],
     [output_path |-> "utilities/responsive.css", start_line |-> 2619, end_line |-> 2690],
     [output_path |-> "utilities/status-badges.css", start_line |-> 3057, end_line |-> 3084],
     [output_path |-> "utilities/warning-styles.css", start_line |-> 3146, end_line |-> 3210],
     [output_path |-> "utilities/theme-selection.css", start_line |-> 4549, end_line |-> 4599]
  >>

\* INDEX_TEMPLATE, one pair per line (the dash of the title line is written
\* in ASCII).
INDEX_TEMPLATE ==
  <<
     <<"text", "/* ==========================================">>,
     <<"text", "   Ahlt -- Design System (Modular)">>,
     <<"text", "   Compiled via PostCSS @import">>,
     <<"text", "   ========================================== */">>,
     <<"text", "">>,
     <<"@import", "base/variables.css">>,
     <<"@import", "base/reset.css">>,
     <<"@import", "base/typography.css">>,
     <<"text", "">>,
     <<"@import", "layout/app.css">>,
     <<"@import", "layout/page-header.css">>,
     <<"@import", "layout/search-filter.css">>,
     <<"@import", "layout/empty-states.css">>,
     <<"@import", "layout/pagination.css">>,
     <<"@import", "layout/form-layout.css">>,
     <<"text", "">>,
     <<"@import", "components/sidebar.css">>,
     <<"@import", "components/navbar.css">>,
     <<"@import", "components/buttons.css">>,
     <<"@import", "components/forms.css">>,
     <<"@import", "components/tables.css">>,
     <<"@import", "components/alerts.css">>,
     <<"@import", "components/cards.css">>,
     <<"@import", "components/badges.css">>,
     <<"@import", "components/tab-bar.css">>,
     <<"@import", "components/relation-cards.css">>,
     <<"@import", "components/graph-panel.css">>,
     <<"@import", "components/pipeline-tabs.css">>,
     <<"@import", "components/detail-card.css">>,
     <<"@import", "components/section.css">>,
     <<"@import", "components/tabs.css">>,
     <<"@import", "components/tor-context.css">>,
     <<"text", "">>,
     <<"@import", "pages/error.css">>,
     <<"@import", "pages/login.css">>,
     <<"@import", "pages/ontology.css">>,
     <<"@import", "pages/schema-tables.css">>,
     <<"@import", "pages/graph.css">>,
     <<"@import", "pages/data-browser.css">>,
     <<"@import", "pages/entity-detail.css">>,
     <<"@import", "pages/role-permissions.css">>,
     <<"@import", "pages/menu-builder.css">>,
     <<"@import", "pages/inline-form.css">>,
     <<"@import", "pages/tor-grid.css">>,
     <<"@import", "pages/tor-info-grid.css">>,
     <<"@import", "pages/positions-list.css">>,
     <<"@import", "pages/functions-list.css">>,
     <<"@import", "pages/protocol-steps.css">>,
     <<"@import", "pages/dependency-flow.css">>,
     <<"@import", "pages/governance-cards.css">>,
     <<"@import", "pages/governance-graph.css">>,
     <<"@import", "pages/calendar.css">>,
     <<"@import", "pages/profile.css">>,
     <<"@import", "pages/users-list.css">>,
     <<"@import", "pages/point-paper.css">>,
     <<"@import", "pages/role-list.css">>,
     <<"@import", "pages/role-builder.css">>,
     <<"text", "">>,
     <<"@import", "utilities/utilities.css">>,
     <<"@import", "utilities/scrollbar.css">>,
     <<"@import", "utilities/animations.css">>,
     <<"@import", "utilities/focus.css">>,
     <<"@import", "utilities/muted-id.css">>,
     <<"@import", "utilities/responsive.css">>,
     <<"@import", "utilities/status-badges.css">>,
     <<"@import", "utilities/warning-styles.css">>,
     <<"@import", "utilities/theme-selection.css">>
  >>

\* ------------------------------------------------------------- helpers
Min(a, b) == IF a < b THEN a ELSE b

Max(a, b) == IF a > b THEN a ELSE b

Absent == [exists |-> FALSE, data |-> <<>>]

File(content) == [exists |-> TRUE, data |-> content]

\* Python's lines[a:b] for a sequence: negative indices count from the end,
\* both indices are clamped to [0, len], an empty range gives the empty list.
PySlice(lines, a, b) ==
  LET n  == Len(lines)
      lo == IF a < 0 THEN Max(n + a, 0) ELSE Min(a, n)
      hi == IF b < 0 THEN Max(n + b, 0) ELSE Min(b, n)
  IN  IF lo >= hi THEN <<>> ELSE SubSeq(lines, lo + 1, hi)

\* Variant: the manifest range read as half-open (end_idx = end_line - 1).
SectionLines_HalfOpen(lines, entry) ==
  PySlice(lines, entry.start_line - 1, entry.end_line - 1)

\* section_lines for one manifest entry (start_idx = start_line - 1,
\* end_idx = end_line).
SectionLines(lines, entry) ==
  PySlice(lines, entry.start_line - 1, entry.end_line)

\* Variant: the content is appended to what the file held.
WriteText_Append(fs, path, content) ==
  [fs EXCEPT ![path] = File(fs[path].data \o content)]

\* Path.write_text: the file is replaced by the content.
WriteText(fs, path, content) == [fs EXCEPT ![path] = File(content)]

ModulePaths == { SECTIONS[i].output_path : i \in 1..Len(SECTIONS) }

IndexPath == "index.css"

IsImport(l) == l[1] = "@import"

\* The paths named by the @import lines of an aggregator content, in order.
ImportPaths(content) ==
  LET imports == SelectSeq(content, IsImport)
  IN  [k \in 1..Len(imports) |-> imports[k][2]]

\* Index of the first manifest entry whose destination refuses writes
\* (Len(SECTIONS) + 1 when every destination can be written).
FirstBlocked(blocked) ==
  LET hit == { i \in 1..Len(SECTIONS) : SECTIONS[i].output_path = blocked }
  IN  IF hit = {} THEN Len(SECTIONS) + 1
      ELSE CHOOSE i \in hit : \A j \in hit : i <= j

\* Variant: the loop stops one entry early.
ExtractLoop_OffByOne(lines, fs, blocked) ==
  LET stop == FirstBlocked(blocked)
      done == 1..(stop - 2)
  IN  [files   |-> [p \in DOMAIN fs |->
                     IF \E i \in done : SECTIONS[i].output_path = p
                     THEN File(SectionLines(lines,
                            SECTIONS[CHOOSE i \in done :
                                       SECTIONS[i].output_path = p]))
                     ELSE fs[p]],
       created |-> [i \in done |-> SECTIONS[i].output_path],
       printed |-> [i \in done |-> <<SECTIONS[i].output_path,
                                     Len(SectionLines(lines, SECTIONS[i]))>>],
       error   |-> IF stop <= Len(SECTIONS) THEN "OSError" ELSE "none"]

\* The for loop of extract_sections: the entries are taken in declaration
\* order, each one slices the lines, writes its file, appends to
\* created_files and prints (output_path, line_count).  A destination that
\* cannot be written raises OSError and ends the loop there.
ExtractLoop(lines, fs, blocked) ==
  LET stop == FirstBlocked(blocked)
      done == 1..(stop - 1)
      Last(p) == CHOOSE i \in done :
                   /\ SECTIONS[i].output_path = p
                   /\ \A j \in done : SECTIONS[j].output_path = p => j <= i
  IN  [files   |-> [p \in DOMAIN fs |->
                     IF \E i \in done : SECTIONS[i].output_path = p
                     THEN WriteText(fs, p,
                            SectionLines(lines, SECTIONS[Last(p)]))[p]
                     ELSE fs[p]],
       created |-> [i \in done |-> SECTIONS[i].output_path],
       printed |-> [i \in done |-> <<SECTIONS[i].output_path,
                                     Len(SectionLines(lines, SECTIONS[i]))>>],
       error   |-> IF stop <= Len(SECTIONS) THEN "OSError" ELSE "none"]

\* verify_output(original_css, compiled_css): the returned boolean and the
\* message printed.
verify_output(original_css, compiled_css) ==
  IF ~original_css.exists \/ ~compiled_css.exists
  THEN [ret |-> "False", msg |-> "cannot verify"]
  ELSE IF original_css.data = compiled_css.data
       THEN [ret |-> "True", msg |-> "byte-identical"]
       ELSE [ret |-> "False", msg |-> "differs"]

\* What the bundler makes of index.css: the imported files' lines, in the
\* order of the @import lines (a missing import makes the bundler fail).
RECURSIVE ConcatRange(_, _, _, _)
ConcatRange(paths, fs, lo, hi) ==
  IF lo > hi THEN <<>>
  ELSE IF lo = hi THEN fs[paths[lo]].data
  ELSE LET mid == (lo + hi) \div 2
       IN  ConcatRange(paths, fs, lo, mid) \o ConcatRange(paths, fs, mid + 1, hi)

ConcatModules(paths, fs) == ConcatRange(paths, fs, 1, Len(paths))

\* ------------------------------------------------------- input universe
MaxEnd ==
  CHOOSE m \in { SECTIONS[i].end_line : i \in 1..Len(SECTIONS) } :
    \A i \in 1..Len(SECTIONS) : SECTIONS[i].end_line <= m

DocLens == {0, ShortLen, MaxEnd - 1} \cup (MaxEnd .. MaxEnd + MaxExtra)

Periods == 0..MaxPeriod

DocLine(p, i) == IF p = 0 THEN i ELSE i % p

Documents == { [i \in 1..n |-> DocLine(p, i)] : n \in DocLens, p \in Periods }

\* Destinations that refuse writes: none, one module file, or index.css.
BlockedChoices == {"none", "layout/app.css", IndexPath}

\* What the output tree holds before the first run: nothing, or stale files.
PriorTrees ==
  { [p \in ModulePaths |-> Absent], [p \in ModulePaths |-> File(<<-1>>)] }

PriorIndexes == { Absent, File(<< <<"text", "stale">> >>) }

\* ------------------------------------------------------------------ state
VARIABLES
  source,        \* static/css/style.css
  files,         \* static/css/<module path>, for every manifest path
  index,         \* static/css/index.css
  compiled,      \* static/css/style.css.compiled
  unwritable,    \* the destination that refuses writes, or "none"
  pc,            \* "shell", "start", "extracted", "exit"
  argv_verify,   \* "--verify" in sys.argv
  created_files, \* the list extract_sections returns
  printed,       \* the (output_path, line_count) pairs printed by the loop
  error,         \* the exception that ended the process, or "none"
  verify_ret,    \* what verify_output returned ("None": not called)
  verify_msg,    \* what verify_output printed
  exit_code,     \* exit status of the last invocation
  runs           \* invocations so far

vars == <<source, files, index, compiled, unwritable, pc, argv_verify,
          created_files, printed, error, verify_ret, verify_msg, exit_code,
          runs>>

fsvars == <<source, files, index, compiled, unwritable>>

Init ==
  /\ source \in {Absent} \cup { File(d) : d \in Documents }
  /\ files \in PriorTrees
  /\ index \in PriorIndexes
  /\ compiled \in {Absent, File(<<-1>>)}
  /\ unwritable \in BlockedChoices
  /\ pc = "shell"
  /\ argv_verify = FALSE
  /\ created_files = <<>>
  /\ printed = <<>>
  /\ error = "none"
  /\ verify_ret = "None"
  /\ verify_msg = "none"
  /\ exit_code = 0
  /\ runs = 0

\* The operator starts the script, with or without --verify.
Invoke(v) ==
  /\ pc \in {"shell", "exit"}
  /\ runs < MaxRuns
  /\ pc' = "start"
  /\ argv_verify' = v
  /\ runs' = runs + 1
  /\ created_files' = <<>>
  /\ printed' = <<>>
  /\ error' = "none"
  /\ verify_ret' = "None"
  /\ verify_msg' = "none"
  /\ UNCHANGED <<fsvars, exit_code>>

\* Variant: index.css is written before the source is opened.
extract_sections_IndexFirst ==
  /\ pc = "start"
  /\ index' = File(INDEX_TEMPLATE)
  /\ IF ~source.exists
     THEN /\ error' = "FileNotFoundError"
          /\ pc' = "exit"
          /\ exit_code' = 1
          /\ UNCHANGED <<files, created_files, printed>>
     ELSE LET r == ExtractLoop(source.data, files, unwritable)
          IN  /\ files' = r.files
              /\ printed' = r.printed
              /\ IF r.error # "none"
                 THEN /\ error' = r.error
                      /\ pc' = "exit"
                      /\ exit_code' = 1
                      /\ UNCHANGED created_files
                 ELSE /\ created_files' = r.created
                      /\ pc' = "extracted"
                      /\ UNCHANGED <<error, exit_code>>
  /\ UNCHANGED <<source, compiled, unwritable, argv_verify, verify_ret,
                 verify_msg, runs>>

\* extract_sections(): read the source, write every section, write index.css.
\* An uncaught exception ends the process with exit status 1.
extract_sections ==
  /\ pc = "start"
  /\ IF ~source.exists
     THEN /\ error' = "FileNotFoundError"
          /\ pc' = "exit"
          /\ exit_code' = 1
          /\ UNCHANGED <<files, index, created_files, printed>>
     ELSE LET lines == source.data
              r == ExtractLoop(lines, files, unwritable)
          IN  /\ files' = r.files
              /\ printed' = r.printed
              /\ IF r.error # "none"
                 THEN /\ error' = r.error
                      /\ pc' = "exit"
                      /\ exit_code' = 1
                      /\ UNCHANGED <<index, created_files>>
                 ELSE IF unwritable = IndexPath
                 THEN /\ error' = "OSError"
                      /\ pc' = "exit"
                      /\ exit_code' = 1
                      /\ UNCHANGED <<index, created_files>>
                 ELSE /\ index' = File(INDEX_TEMPLATE)
                      /\ created_files' = r.created
                      /\ pc' = "extracted"
                      /\ UNCHANGED <<error, exit_code>>
  /\ UNCHANGED <<source, compiled, unwritable, argv_verify, verify_ret,
                 verify_msg, runs>>

\* __main__ with --verify: print the instructions, call verify_output(),
\* drop its result, fall off the end of the script (exit status 0).
MainVerify ==
  /\ pc = "extracted"
  /\ argv_verify
  /\ LET v == verify_output(source, compiled)
     IN  /\ verify_ret' = v.ret
         /\ verify_msg' = v.msg
  /\ pc' = "exit"
  /\ exit_code' = 0
  /\ UNCHANGED <<fsvars, argv_verify, created_files, printed, error, runs>>

\* __main__ without --verify: print the next steps, exit status 0.
MainNextSteps ==
  /\ pc = "extracted"
  /\ ~argv_verify
  /\ pc' = "exit"
  /\ exit_code' = 0
  /\ UNCHANGED <<fsvars, argv_verify, created_files, printed, error,
                 verify_ret, verify_msg, runs>>

\* The operator runs the bundler on index.css between two invocations:
\*   npx postcss static/css/index.css -o static/css/style.css.compiled
Bundle ==
  /\ pc \in {"shell", "exit"}
  /\ index.exists
  /\ LET paths == ImportPaths(index.data)
     IN  /\ \A k \in 1..Len(paths) :
               paths[k] \in ModulePaths /\ files[paths[k]].exists
         /\ compiled' = File(ConcatModules(paths, files))
  /\ pc' = "shell"
  /\ UNCHANGED <<source, files, index, unwritable, argv_verify,
                 created_files, printed, error, verify_ret, verify_msg,
                 exit_code, runs>>

Next ==
  \/ \E v \in BOOLEAN : Invoke(v)
  \/ extract_sections
  \/ MainVerify
  \/ MainNextSteps
  \/ Bundle

Spec == Init /\ [][Next]_vars

TypeOK ==
  /\ pc \in {"shell", "start", "extracted", "exit"}
  /\ runs \in 0..MaxRuns
  /\ exit_code \in {0, 1}

\* ------------------------------------------------------------ properties
Range(seq) == { seq[k] : k \in 1..Len(seq) }

NoDuplicates(seq) == Cardinality(Range(seq)) = Len(seq)

\* extract_sections has returned normally in the current invocation and
\* nothing has touched the output tree since.
AfterExtract ==
  /\ runs >= 1
  /\ error = "none"
  /\ pc \in {"extracted", "exit"}

\* The entry's range does not lie within [1, n].
OutOfBounds(entry, n) ==
  \/ entry.start_line < 1 \/ entry.start_line > n
  \/ entry.end_line < 1 \/ entry.end_line > n

\* C1 (round trip): after extract_sections on a source document that covers
\* every manifest range, the module files concatenated in the order of the
\* @import lines of index.css are exactly the lines of the source document.
C1_RoundTrip ==
  (AfterExtract /\ Len(source.data) >= MaxEnd)
    => ConcatModules(ImportPaths(index.data), files) = source.data

\* C2 (coverage): every line number of the document extract_sections has
\* read lies in the range of at least one manifest entry.
C2_Coverage ==
  AfterExtract =>
    \A L \in 1..Len(source.data) :
      \E i \in 1..Len(SECTIONS) :
        SECTIONS[i].start_line <= L /\ L <= SECTIONS[i].end_line

\* C3 (non-overlap): no two distinct manifest entries have inclusive ranges
\* sharing a line, and after extract_sections on a document of pairwise
\* distinct lines no line is in two module files.
C3_NonOverlap ==
  AfterExtract =>
    /\ \A i, j \in 1..Len(SECTIONS) :
         i # j => \/ SECTIONS[i].end_line < SECTIONS[j].start_line
                  \/ SECTIONS[j].end_line < SECTIONS[i].start_line
    /\ NoDuplicates(source.data) =>
         \A p, q \in ModulePaths :
           p # q => Range(files[p].data) \cap Range(files[q].data) = {}

\* C4 (manifest/aggregator parity): after a successful extract_sections the
\* files it created and the paths imported by the index.css it wrote are the
\* same set, neither list names a path twice, and every import exists.
C4_Parity ==
  AfterExtract =>
    LET imports == ImportPaths(index.data)
    IN  /\ Range(created_files) = Range(imports)
        /\ NoDuplicates(created_files)
        /\ NoDuplicates(imports)
        /\ \A p \in Range(imports) : p \in ModulePaths /\ files[p].exists

C4_Witness ==
  /\ AfterExtract
  /\ Len(created_files) = Len(SECTIONS)
  /\ Len(ImportPaths(index.data)) = Len(SECTIONS)

\* C5 (missing artifact told apart from mismatch): when verify_output has
\* compared two existing files that differ, the value it returned is not the
\* value it returns for a missing compiled file.
C5_MissingDistinctFromDiffers ==
  (/\ pc = "exit"
   /\ verify_ret # "None"
   /\ source.exists /\ compiled.exists
   /\ source.data # compiled.data)
    => verify_ret # verify_output(source, Absent).ret

\* C6 (range check): once extract_sections has run on a readable source, an
\* entry whose range is out of bounds has made it fail with RangeOutOfBounds
\* and no file was written for that entry.
C6_RangeOutOfBounds ==
  (runs >= 1 /\ pc \in {"extracted", "exit"} /\ source.exists)
    => \A i \in 1..Len(SECTIONS) :
         OutOfBounds(SECTIONS[i], Len(source.data))
           => /\ error = "RangeOutOfBounds"
              /\ \A k \in 1..Len(printed) :
                   printed[k][1] # SECTIONS[i].output_path

\* C7 (exit status): an invocation with --verify exits non-zero exactly when
\* verify_output found a difference or a fatal error ended the run.
C7_ExitStatus ==
  (pc = "exit" /\ argv_verify)
    => (exit_code # 0 <=> (verify_msg = "differs" \/ error # "none"))

\* C8 (source unreadable): while the source file is missing no step changes a
\* module file or index.css, and extract_sections ends the run with
\* FileNotFoundError and a non-zero exit status.
C8_SourceMissingNoWrite ==
  [][~source.exists =>
       /\ files' = files
       /\ index' = index
       /\ pc = "start" => /\ error' = "FileNotFoundError"
                          /\ pc' = "exit"
                          /\ exit_code' = 1]_vars

C8_Witness ==
  /\ pc = "exit"
  /\ error = "FileNotFoundError"
  /\ ~source.exists
  /\ ~index.exists

\* C9 (idempotence): a run of extract_sections that follows a successful
\* invocation succeeds and leaves every module file and index.css as they
\* were.
C9_Idempotence ==
  [][(pc = "start" /\ runs >= 2 /\ exit_code = 0)
       => /\ pc' = "extracted"
          /\ files' = files
          /\ index' = index]_vars

C9_Witness ==
  /\ pc = "extracted"
  /\ runs >= 2
  /\ exit_code = 0
  /\ Len(source.data) >= MaxEnd

\* C10 (inclusive slicing): after extract_sections, the file of every entry
\* whose range lies within the document holds exactly the lines start_line
\* to end_line, both included, in order, and end_line - start_line + 1 is
\* the line count printed for that entry.
C10_InclusiveSlicing ==
  AfterExtract =>
    \A i \in 1..Len(SECTIONS) :
      LET e == SECTIONS[i]
          n == e.end_line - e.start_line + 1
      IN  (1 <= e.start_line /\ e.start_line <= e.end_line
             /\ e.end_line <= Len(source.data))
            => /\ files[e.output_path].exists
               /\ files[e.output_path].data =
                    [k \in 1..n |-> source.data[e.start_line + k - 1]]
               /\ printed[i] = <<e.output_path, n>>

C10_Witness ==
  /\ AfterExtract
  /\ Len(source.data) = MaxEnd
  /\ NoDuplicates(source.data)
  /\ Len(printed) = Len(SECTIONS)
====
